---- MODULE Spec2Model ----
(***************************************************************************)
(* A model of the go-bot RAG service: the ingestion job (cmd/ingest), the  *)
(* vector-store client, the embedder, the generation client and the /chat  *)
(* handler of the server.  External services (Qdrant, Ollama, Groq, the    *)
(* HTTP caller) are modelled at their wire protocol; their answers are     *)
(* nondeterministic inputs of the actions.                                 *)
(***************************************************************************)
EXTENDS Integers, Sequences, FiniteSets, TLC

(* ------------------------------- state --------------------------------- *)
VARIABLES
    \* the vector store (Qdrant)
    collections,    \* the collections it holds: a sequence of [name, size, distance]
    points,         \* the points of the collection: numeric id -> [vector, payload]
    points0,        \* the collection's points before the first run
    \* the ingestion job (cmd/ingest)
    file,           \* the knowledge-base file given with -file
    run,            \* how many times the job has been started
    pc,             \* where the job is
    entries,        \* IngestJSONFile: the parsed entries
    i,              \* IngestJSONFile: the loop index
    texts,          \* processBatch: texts of the current batch
    embeddings,     \* Embed: the vectors computed so far
    calls,          \* the external calls of the current run, in order
    ensureErr,      \* what EnsureCollection returned
    ingestErr,      \* what IngestJSONFile returned
    prev,           \* the outcome of the previous run
    jobCtx,         \* main's context: whether cancel() was called, and when
    \* the server (cmd/server): one request to /chat
    hpc,            \* where the handler is
    req,            \* the request
    queryEmbedding, \* Query/StreamQuery: the embedded query
    results,        \* Query/StreamQuery: the search results
    messages,       \* Query/StreamQuery: the prompt
    genResp,        \* the generation endpoint's response
    rd,             \* StreamChatCompletion: lines the scanner has returned
    pending,        \* StreamChatCompletion: fragments of the chunk still to write
    queryResult,    \* what Query returned
    queryErr,       \* the error Query or StreamQuery returned
    httpStatus,     \* status of the HTTP response (0: header not written)
    sink,           \* bytes written through the flushWriter
    chatResponse,   \* the JSON or plain-text body of a non-streaming response
    qcalls          \* the external calls of the query, in order

ingestVars == <<collections, points, points0, file, run, pc, entries, i, texts,
                embeddings, calls, ensureErr, ingestErr, prev, jobCtx>>

chatVars == <<hpc, req, queryEmbedding, results, messages, genResp, rd, pending,
              queryResult, queryErr, httpStatus, sink, chatResponse, qcalls>>

vars == <<ingestVars, chatVars>>

(* ------------------------------ bounds --------------------------------- *)
\* Largest number of entries in the knowledge-base file.
MaxEntries == 12
\* Number of times the ingestion job is started (a run and its re-runs).
MaxRuns == 2
\* Number of distinct entries the corpus is drawn from.
PoolSize == 5

(* -------------------------- program constants -------------------------- *)
batchSize == 10
MaxPromptLen == 8000
StatusOK == 200
StatusNotFound == 404
StatusConflict == 409
StatusBadRequest == 400
StatusServerError == 500
Float32MantissaBits == 24
\* The number of results a query asks the store for.
topK == 5

NoErr == [kind |-> "nil"]
Err(k) == [kind |-> k]
ErrAt(k, n, cause) == [kind |-> k, index |-> n, cause |-> cause]

Min(a, b) == IF a < b THEN a ELSE b

(* ---------------- stringToNumericID: 64-bit FNV-1a --------------------- *)
\* A uint64 is a tuple of 8 bytes, least significant first.
RECURSIVE XorByte(_, _)
XorByte(a, b) ==
    IF a = 0 THEN b
    ELSE IF b = 0 THEN a
    ELSE (((a % 2) + (b % 2)) % 2) + 2 * XorByte(a \div 2, b \div 2)

\* offset basis 14695981039346656037 = 0xcbf29ce484222325
FnvOffset64 == <<37, 35, 34, 132, 228, 156, 242, 203>>
\* prime 1099511628211 = 0x00000100000001b3
FnvPrime64 == <<179, 1, 0, 0, 0, 1, 0, 0>>

\* Column k of the schoolbook product h * FnvPrime64, before carries.
MulColumn(h, k) ==
    LET Term(j) == h[k - j + 1] * FnvPrime64[j]
    IN  Term(1) + (IF k >= 2 THEN Term(2) ELSE 0) + (IF k >= 6 THEN Term(6) ELSE 0)

RECURSIVE Carry(_, _, _, _)
Carry(h, k, c, acc) ==
    IF k > 8 THEN acc
    ELSE LET v == MulColumn(h, k) + c
         IN  Carry(h, k + 1, (v \div 256), Append(acc, (v % 256)))

\* h * prime mod 2^64
MulPrime64(h) == Carry(h, 1, 0, <<>>)

FnvStep(h, b) == MulPrime64([h EXCEPT ![1] = XorByte(h[1], b)])

RECURSIVE FnvFold(_, _, _)
FnvFold(h, bytes, k) ==
    IF k > Len(bytes) THEN h ELSE FnvFold(FnvStep(h, bytes[k]), bytes, k + 1)

\* The bytes of the identifiers the model uses ("k1" = 0x6b 0x31, ...).
IdBytes(s) ==
    CASE s = "k1" -> <<107, 49>>
      [] s = "k2" -> <<107, 50>>
      [] s = "k3" -> <<107, 51>>
      [] s = "k4" -> <<107, 52>>
      [] s = "k5" -> <<107, 53>>
      [] s = "k6" -> <<107, 54>>
      [] s = "a"  -> <<97>>
      [] s = ""   -> <<>>

\* A hash seeded by the process: the numeric id changes from run to run.
stringToNumericIDSeeded(s) == FnvFold(FnvOffset64, <<run>> \o IdBytes(s), 1)
stringToNumericID(s) == FnvFold(FnvOffset64, IdBytes(s), 1)


(* ------------------- float64ToFloat32 (IEEE rounding) ------------------ *)
\* A float is [m |-> mantissa, e |-> exponent], the number m * 2^e.  The
\* conversion keeps 24 mantissa bits, rounding to nearest, ties to even.
\* Exponents stay inside the normal float32 range in this model.
RECURSIVE Pow2(_)
Pow2(n) == IF n = 0 THEN 1 ELSE 2 * Pow2(n - 1)

RECURSIVE BitLen(_)
BitLen(m) == IF m = 0 THEN 0 ELSE 1 + BitLen(m \div 2)

Abs(x) == IF x < 0 THEN 0 - x ELSE x

RoundShift(m, s) ==
    LET q == m \div Pow2(s)
        r == m % Pow2(s)
        half == Pow2(s - 1)
    IN  IF r > half \/ (r = half /\ q % 2 = 1) THEN q + 1 ELSE q

float32(v) ==
    LET a == Abs(v.m)
        s == BitLen(a) - Float32MantissaBits
        sign == IF v.m < 0 THEN 0 - 1 ELSE 1
    IN  IF s <= 0 THEN v ELSE [m |-> sign * RoundShift(a, s), e |-> v.e + s]

float64ToFloat32(in) == [k \in 1..Len(in) |-> float32(in[k])]

(* ------------------------- knowledge entries --------------------------- *)
Ids == <<"k1", "k2", "k3">>

RECURSIVE Rep(_, _)
Rep(c, n) == IF n = 0 THEN "" ELSE c \o Rep(c, n - 1)

\* The p-th entry of the pool: identifiers repeat along the pool with
\* different contents, so a corpus can hold the same id twice.
PoolEntry(p) ==
    [ID |-> Ids[((p - 1) % Len(Ids)) + 1],
     Module |-> IF p % 2 = 1 THEN "Auth" ELSE "Leave",
     Topic |-> "T" \o ToString(p),
     Roles |-> IF p % 2 = 1 THEN <<"admin">> ELSE <<>>,
     QueryVariations |-> IF p % 3 = 0 THEN <<"how", "why">> ELSE <<"how">>,
     Answer |-> Rep("a", 2 * p)]

CorpusOf(n) == [k \in 1..n |-> PoolEntry(((k - 1) % PoolSize) + 1)]

\* A knowledge base that holds one question under topK + 1 identifiers.
TwinIds == <<"k1", "k2", "k3", "k4", "k5", "k6">>
Twins == [k \in 1..(topK + 1) |-> [PoolEntry(1) EXCEPT !.ID = TwinIds[k]]]

\* The knowledge-base file: unreadable, malformed JSON, or an array.
Files ==
    {[readable |-> FALSE, wellFormed |-> FALSE, entries |-> <<>>],
     [readable |-> TRUE, wellFormed |-> FALSE, entries |-> <<>>],
     [readable |-> TRUE, wellFormed |-> TRUE, entries |-> Twins]}
    \cup {[readable |-> TRUE, wellFormed |-> TRUE, entries |-> CorpusOf(n)] :
            n \in 0..MaxEntries}

RECURSIVE Join(_, _)
Join(elems, sep) ==
    IF Len(elems) = 0 THEN ""
    ELSE IF Len(elems) = 1 THEN elems[1]
    ELSE elems[1] \o sep \o Join(Tail(elems), sep)

entryToText(entry) ==
    "Module: " \o entry.Module \o "\nTopic: " \o entry.Topic
    \o "\nQuestions: " \o Join(entry.QueryVariations, "; ")
    \o "\nAnswer: " \o entry.Answer

(* ------------------------------ embedder ------------------------------- *)
Truncate(text) ==
    IF Len(text) > MaxPromptLen THEN SubSeq(text, 1, MaxPromptLen) ELSE text

\* The embedding engine is deterministic: the vector is a function of the
\* prompt.  The second component needs more than 24 mantissa bits.
EngineEmbedding(prompt) ==
    <<[m |-> Len(prompt), e |-> 0], [m |-> 16777217, e |-> 0 - 24]>>

EngineReply(net, read, status, json, embedding) ==
    [net |-> net, read |-> read, status |-> status, json |-> json,
     embedding |-> embedding]

\* What the engine can answer to one request.
EngineResponses(prompt) ==
    {EngineReply(FALSE, FALSE, 0, FALSE, <<>>),
     EngineReply(TRUE, FALSE, StatusOK, FALSE, <<>>),
     EngineReply(TRUE, TRUE, StatusServerError, FALSE, <<>>),
     EngineReply(TRUE, TRUE, StatusOK, FALSE, <<>>),
     EngineReply(TRUE, TRUE, StatusOK, TRUE, <<>>),
     EngineReply(TRUE, TRUE, StatusOK, TRUE, EngineEmbedding(prompt))}

embedSingleAcceptsEmpty(text, resp) ==
    IF ~resp.net THEN [vec |-> <<>>, err |-> Err("do request")]
    ELSE IF ~resp.read THEN [vec |-> <<>>, err |-> Err("read response")]
    ELSE IF resp.status # StatusOK THEN [vec |-> <<>>, err |-> Err("ollama error")]
    ELSE IF ~resp.json THEN [vec |-> <<>>, err |-> Err("decode response")]
    ELSE [vec |-> float64ToFloat32(resp.embedding), err |-> NoErr]

embedSingle(text, resp) ==
    IF ~resp.net THEN [vec |-> <<>>, err |-> Err("do request")]
    ELSE IF ~resp.read THEN [vec |-> <<>>, err |-> Err("read response")]
    ELSE IF resp.status # StatusOK THEN [vec |-> <<>>, err |-> Err("ollama error")]
    ELSE IF ~resp.json THEN [vec |-> <<>>, err |-> Err("decode response")]
    ELSE IF Len(resp.embedding) = 0
         THEN [vec |-> <<>>, err |-> Err("empty embedding returned")]
    ELSE [vec |-> float64ToFloat32(resp.embedding), err |-> NoErr]


Pending == [kind |-> "pending"]

\* A context that is not cancelled; a context cancelled when the job was at
\* `at`, having issued n external requests.
Live == [done |-> FALSE, at |-> "", calls |-> 0]
Cancelled(at, n) == [done |-> TRUE, at |-> at, calls |-> n]

collectionName == "knowledge_base"
vectorSize == 2

(* --------------------------- the vector store -------------------------- *)
CollectionExists == \E k \in 1..Len(collections) : collections[k].name = collectionName

StoreReply(net, status) == [net |-> net, status |-> status]

\* GET /collections/<name>: the store answers 200 or 404; the request can
\* also fail in transport, or the store can answer with a server error.
GetCollectionResponses ==
    {StoreReply(TRUE, IF CollectionExists THEN StatusOK ELSE StatusNotFound),
     StoreReply(FALSE, 0),
     StoreReply(TRUE, StatusServerError)}

\* PUT /collections/<name>: creates the collection, or 409 when it exists.
CreateCollectionResponses ==
    {StoreReply(TRUE, IF CollectionExists THEN StatusConflict ELSE StatusOK),
     StoreReply(FALSE, 0),
     StoreReply(TRUE, StatusServerError)}

\* The store after the first n points of a write were applied, in order:
\* insert-or-replace keyed by the numeric id.
RECURSIVE ApplyPoints(_, _, _)
ApplyPoints(pts, reqPoints, n) ==
    IF n = 0 THEN pts
    ELSE LET before == ApplyPoints(pts, reqPoints, n - 1)
             p == reqPoints[n]
         IN  [id \in DOMAIN before \cup {p.id} |->
                IF id = p.id THEN [vector |-> p.vector, payload |-> p.payload]
                ELSE before[id]]

\* The configured dimension of the collection.
CollectionSize ==
    collections[CHOOSE k \in 1..Len(collections) :
                    collections[k].name = collectionName].size

\* PUT /collections/<name>/points?wait=true: 200 once every point is
\* written.  A request with a vector of another length than the
\* collection's dimension is rejected as a whole.  A write that fails
\* otherwise may have applied a prefix of the batch.
UpsertResponses(reqPoints) ==
    IF ~CollectionExists THEN {[net |-> TRUE, status |-> StatusNotFound, applied |-> 0]}
    ELSE IF \E k \in 1..Len(reqPoints) : Len(reqPoints[k].vector) # CollectionSize
    THEN {[net |-> TRUE, status |-> StatusBadRequest, applied |-> 0],
          [net |-> FALSE, status |-> 0, applied |-> 0]}
    ELSE {[net |-> TRUE, status |-> StatusOK, applied |-> Len(reqPoints)]}
         \cup {[net |-> n, status |-> IF n THEN StatusServerError ELSE 0, applied |-> a] :
                 n \in BOOLEAN, a \in 0..Len(reqPoints)}

(* ------------------------- vector client (Qdrant) ---------------------- *)
\* The body of the create request.
createReq == [name |-> collectionName, size |-> vectorSize, distance |-> "Cosine"]

\* EnsureCollection: what the existence check decides.
EnsureDecisionIgnoresExists(resp) ==
    IF ~resp.net THEN "error" ELSE "create"
EnsureDecision(resp) ==
    IF ~resp.net THEN "error"
    ELSE IF resp.status = StatusOK THEN "exists"
    ELSE "create"

\* A create that takes a conflict for a failure.
createCollectionResultStrict(resp) ==
    IF ~resp.net THEN Err("create collection")
    ELSE IF resp.status = StatusOK THEN NoErr
    ELSE Err("create collection failed")

createCollectionResult(resp) ==
    IF ~resp.net THEN Err("create collection")
    ELSE IF resp.status = StatusOK \/ resp.status = StatusConflict THEN NoErr
    ELSE Err("create collection failed")

\* Numeric ids that depend on the point's place in the request.
qdrantPointsPositional(pts) ==
    [k \in 1..Len(pts) |->
        [id |-> FnvFold(FnvOffset64, <<k>> \o IdBytes(pts[k].ID), 1),
         vector |-> pts[k].Vector,
         payload |-> pts[k].Payload]]

\* The points of the upsert request body.
qdrantPoints(pts) ==
    [k \in 1..Len(pts) |->
        [id |-> stringToNumericID(pts[k].ID),
         vector |-> pts[k].Vector,
         payload |-> pts[k].Payload]]

\* Only a failed request or a server error is an error.
UpsertPointsResultTolerant(resp) ==
    IF ~resp.net THEN Err("upsert points")
    ELSE IF resp.status = StatusServerError THEN Err("upsert failed")
    ELSE NoErr

UpsertPointsResult(resp) ==
    IF ~resp.net THEN Err("upsert points")
    ELSE IF resp.status # StatusOK THEN Err("upsert failed")
    ELSE NoErr

(* --------------------------- ingestion service ------------------------- *)
BatchEndOffByOne(start, n) ==
    IF start + batchSize > n THEN n ELSE start + batchSize - 1
BatchEnd(start, n) == IF start + batchSize > n THEN n ELSE start + batchSize

BatchIndexOneBased(start) == (start \div batchSize) + 1
BatchIndex(start) == start \div batchSize

\* Points whose payload lacks the derived text.
BatchPointsWithoutText(batch, txts, vecs) ==
    [k \in 1..Len(batch) |->
        [ID |-> batch[k].ID,
         Vector |-> vecs[k],
         Payload |-> [id |-> batch[k].ID,
                      module |-> batch[k].Module,
                      topic |-> batch[k].Topic,
                      roles |-> batch[k].Roles,
                      query_variations |-> batch[k].QueryVariations,
                      answer |-> batch[k].Answer,
                      text |-> ""]]]

\* processBatch: the points built from a batch and its embeddings.
BatchPoints(batch, txts, vecs) ==
    [k \in 1..Len(batch) |->
        [ID |-> batch[k].ID,
         Vector |-> vecs[k],
         Payload |-> [id |-> batch[k].ID,
                      module |-> batch[k].Module,
                      topic |-> batch[k].Topic,
                      roles |-> batch[k].Roles,
                      query_variations |-> batch[k].QueryVariations,
                      answer |-> batch[k].Answer,
                      text |-> txts[k]]]]

\* A batch that takes all the entries that are left.
CurrentBatchWhole == SubSeq(entries, i + 1, Len(entries))
CurrentBatch == SubSeq(entries, i + 1, BatchEnd(i, Len(entries)))

NoRun == [ensure |-> "none", creates |-> 0, faults |-> 0, ingest |-> "none", batch |-> 0 - 1]

Count(op) == Cardinality({k \in 1..Len(calls) : calls[k].op = op})

\* What a run leaves behind for the next one to be compared with.
RunSummary ==
    IF run = 0 THEN NoRun
    ELSE [ensure |-> ensureErr.kind,
          creates |-> Count("createCollection"),
          faults |-> Cardinality({k \in 1..Len(calls) :
                        /\ calls[k].op \in {"getCollection", "createCollection"}
                        /\ (~calls[k].net \/ calls[k].status = StatusServerError)}),
          ingest |-> ingestErr.kind,
          batch |-> IF ingestErr.kind = "process batch" THEN ingestErr.index ELSE 0 - 1]


(* ------------------------ cmd/ingest: the job -------------------------- *)
\* The job is started (again): main up to the call of EnsureCollection.
StartRun ==
    /\ pc \in {"start", "exited"}
    /\ run < MaxRuns
    /\ run' = run + 1
    /\ prev' = RunSummary
    /\ pc' = "EnsureCollection"
    /\ calls' = <<>>
    /\ ensureErr' = Pending
    /\ ingestErr' = Pending
    /\ entries' = <<>>
    /\ i' = 0
    /\ texts' = <<>>
    /\ embeddings' = <<>>
    /\ jobCtx' = Live
    /\ UNCHANGED <<collections, points, points0, file>>
    /\ UNCHANGED chatVars

\* EnsureCollection: the existence check and what it decides.
EnsureCollection ==
    /\ pc = "EnsureCollection"
    /\ \E resp \in GetCollectionResponses :
        /\ calls' = Append(calls, [op |-> "getCollection", net |-> resp.net,
                                   status |-> resp.status])
        /\ IF EnsureDecision(resp) = "error"
           THEN ensureErr' = Err("check collection") /\ pc' = "exited"
           ELSE IF EnsureDecision(resp) = "exists"
           THEN ensureErr' = NoErr /\ pc' = "IngestJSONFile"
           ELSE ensureErr' = ensureErr /\ pc' = "createCollection"
    /\ UNCHANGED <<collections, points, points0, file, run, entries, i, texts,
                   embeddings, ingestErr, prev, jobCtx>>
    /\ UNCHANGED chatVars

\* createCollection: the create request and its outcome.
createCollection ==
    /\ pc = "createCollection"
    /\ IF jobCtx.done
       THEN \* httpClient.Do returns the context's error; nothing is sent
            /\ ensureErr' = Err("create collection")
            /\ pc' = "exited"
            /\ UNCHANGED <<calls, collections>>
       ELSE \E resp \in CreateCollectionResponses :
            /\ calls' = Append(calls, [op |-> "createCollection", net |-> resp.net,
                                       status |-> resp.status])
            /\ collections' = IF resp.net /\ resp.status = StatusOK
                              THEN Append(collections, createReq)
                              ELSE collections
            /\ ensureErr' = createCollectionResult(resp)
            /\ pc' = IF createCollectionResult(resp) = NoErr THEN "IngestJSONFile"
                     ELSE "exited"
    /\ UNCHANGED <<points, points0, file, run, entries, i, texts, embeddings,
                   ingestErr, prev, jobCtx>>
    /\ UNCHANGED chatVars

\* IngestJSONFile: read and parse the file.
IngestJSONFile ==
    /\ pc = "IngestJSONFile"
    /\ IF ~file.readable
       THEN ingestErr' = Err("read file") /\ pc' = "exited" /\ entries' = entries
       ELSE IF ~file.wellFormed
       THEN ingestErr' = Err("unmarshal json") /\ pc' = "exited" /\ entries' = entries
       ELSE ingestErr' = ingestErr /\ pc' = "loop" /\ entries' = file.entries
    /\ i' = 0
    /\ UNCHANGED <<collections, points, points0, file, run, texts, embeddings,
                   calls, ensureErr, prev, jobCtx>>
    /\ UNCHANGED chatVars

\* The head of the batch loop; entering processBatch computes the texts.
BatchLoop ==
    /\ pc = "loop"
    /\ IF i < Len(entries)
       THEN /\ texts' = [k \in 1..Len(CurrentBatch) |-> entryToText(CurrentBatch[k])]
            /\ embeddings' = <<>>
            /\ pc' = "Embed"
            /\ ingestErr' = ingestErr
       ELSE /\ ingestErr' = NoErr
            /\ pc' = "exited"
            /\ UNCHANGED <<texts, embeddings>>
    /\ UNCHANGED <<collections, points, points0, file, run, entries, i, calls,
                   ensureErr, prev, jobCtx>>
    /\ UNCHANGED chatVars

\* Embed: one iteration of its loop, one request to the engine.
Embed ==
    /\ pc = "Embed"
    /\ LET k == Len(embeddings) + 1
           prompt == Truncate(texts[k])
       IN  IF jobCtx.done
           THEN \* httpClient.Do returns the context's error; nothing is sent
                /\ embeddings' = <<>>
                /\ ingestErr' = ErrAt("process batch", BatchIndex(i),
                                      ErrAt("embed texts", k - 1, Err("do request")))
                /\ pc' = "exited"
                /\ calls' = calls
           ELSE \E resp \in EngineResponses(prompt) :
            LET r == embedSingle(texts[k], resp)
            IN  /\ calls' = Append(calls, [op |-> "embed", prompt |-> prompt,
                                           reply |-> resp])
                /\ IF r.err # NoErr
                   THEN /\ embeddings' = <<>>
                        /\ ingestErr' = ErrAt("process batch", BatchIndex(i),
                                              ErrAt("embed texts", k - 1, r.err))
                        /\ pc' = "exited"
                   ELSE /\ embeddings' = Append(embeddings, r.vec)
                        /\ ingestErr' = ingestErr
                        /\ pc' = IF k = Len(texts) THEN "UpsertPoints" ELSE "Embed"
    /\ UNCHANGED <<collections, points, points0, file, run, entries, i, texts,
                   ensureErr, prev, jobCtx>>
    /\ UNCHANGED chatVars

\* The rest of processBatch: build the points, one upsert request.
UpsertPoints ==
    /\ pc = "UpsertPoints"
    /\ LET upsertReq == qdrantPoints(BatchPoints(CurrentBatch, texts, embeddings))
       IN  IF jobCtx.done
           THEN \* httpClient.Do returns the context's error; nothing is sent
                /\ ingestErr' = ErrAt("process batch", BatchIndex(i),
                                      ErrAt("upsert points", 0, Err("upsert points")))
                /\ pc' = "exited"
                /\ UNCHANGED <<points, calls, i>>
           ELSE \E resp \in UpsertResponses(upsertReq) :
            /\ points' = ApplyPoints(points, upsertReq, resp.applied)
            /\ calls' = Append(calls, [op |-> "upsert", points |-> upsertReq, net |-> resp.net,
                                       status |-> resp.status])
            /\ IF UpsertPointsResult(resp) # NoErr
               THEN /\ ingestErr' = ErrAt("process batch", BatchIndex(i),
                                          ErrAt("upsert points", 0, UpsertPointsResult(resp)))
                    /\ pc' = "exited"
                    /\ i' = i
               ELSE /\ ingestErr' = ingestErr
                    /\ pc' = "loop"
                    /\ i' = i + batchSize
    /\ UNCHANGED <<collections, points0, file, run, entries, texts, embeddings,
                   ensureErr, prev, jobCtx>>
    /\ UNCHANGED chatVars

(* ============================ query service ============================ *)
\* Bounds of the query side.
MaxResults == 3
MaxLines == 3

StatusMethodNotAllowed == 405
\* Scores are float32 values with ten fractional bits: units of 1/1024.
ScoreUnit == Pow2(10)

\* A nil *QueryResult, no request, no response yet.
QNil == [isNil |-> TRUE, Answer |-> "", Sources |-> <<>>]
NoRequest == [method |-> "", decodable |-> FALSE, Query |-> "", Stream |-> FALSE,
              flusher |-> FALSE]
NoResponse == [net |-> FALSE, status |-> 0, json |-> FALSE, choices |-> <<>>,
               body |-> <<>>, ending |-> "eof"]

\* JSON values of a payload: a string, or a number (anything not a string).
Str(v) == [t |-> "string", v |-> v]
Num(v) == [t |-> "number", v |-> v]

\* r.Payload[key].(string): the value and whether the assertion held.
IsString(payload, key) == key \in DOMAIN payload /\ payload[key].t = "string"
StringField(payload, key) == IF IsString(payload, key) THEN payload[key].v ELSE ""

\* What the store can hold for a point: scores are in units of 1/1024.
RawPool ==
    <<[id |-> Num("101"), score |-> 973,
       payload |-> [id |-> Str("k1"), module |-> Str("Auth"), topic |-> Str("Login"),
                    text |-> Str("Module: Auth")]],
      [id |-> Num("102"), score |-> 640,
       payload |-> [id |-> Str("k2"), module |-> Str("Leave"), topic |-> Str("WFH")]],
      [id |-> Num("103"), score |-> 113,
       payload |-> [id |-> Num("7"), text |-> Num("42")]]>>

RawLists(limit) ==
    {[k \in 1..n |-> RawPool[f[k]]] :
        n \in 0..Min(MaxResults, limit), f \in [1..MaxResults -> 1..Len(RawPool)]}

SearchReply(net, status, json, result) ==
    [net |-> net, status |-> status, json |-> json, result |-> result]

\* POST /collections/<name>/points/search with limit K.
SearchResponses(limit) ==
    {SearchReply(FALSE, 0, FALSE, <<>>),
     SearchReply(TRUE, StatusServerError, FALSE, <<>>),
     SearchReply(TRUE, StatusOK, FALSE, <<>>)}
    \cup {SearchReply(TRUE, StatusOK, TRUE, l) : l \in RawLists(limit)}

\* fmt.Sprintf("%v", r.ID)
FormatV(j) == j.v

\* Search: the results decoded from the response.
SearchResults(raw) ==
    [k \in 1..Len(raw) |->
        [ID |-> IF IsString(raw[k].payload, "id") THEN raw[k].payload.id.v
                ELSE FormatV(raw[k].id),
         Score |-> raw[k].score,
         Payload |-> raw[k].payload]]

\* A search that answers a failure with no results and no error.
SearchIgnoresFailure(resp) ==
    IF ~resp.net \/ resp.status # StatusOK \/ ~resp.json
    THEN [results |-> <<>>, err |-> NoErr]
    ELSE [results |-> SearchResults(resp.result), err |-> NoErr]

Search(resp) ==
    IF ~resp.net THEN [results |-> <<>>, err |-> Err("search")]
    ELSE IF resp.status # StatusOK THEN [results |-> <<>>, err |-> Err("search failed")]
    ELSE IF ~resp.json THEN [results |-> <<>>, err |-> Err("decode response")]
    ELSE [results |-> SearchResults(resp.result), err |-> NoErr]

\* %.2f of a score: hundredths, rounded to nearest, ties to even.
Format2f(score) ==
    LET q == (score * 100) \div ScoreUnit
        r == (score * 100) % ScoreUnit
    IN  IF 2 * r > ScoreUnit \/ (2 * r = ScoreUnit /\ q % 2 = 1) THEN q + 1 ELSE q

\* One labelled section of the context: "--- Document d (score: s) ---\n" text.
Section(d, r) == [doc |-> d, score |-> Format2f(r.Score), text |-> r.Payload.text.v]

RECURSIVE buildContextStopsAtMissing(_, _)
buildContextStopsAtMissing(res, k) ==
    IF k > Len(res) THEN <<>>
    ELSE IF ~IsString(res[k].Payload, "text") THEN <<>>
    ELSE <<Section(k, res[k])>> \o buildContextStopsAtMissing(res, k + 1)

\* buildContext, from the k-th result on.
RECURSIVE buildContextFrom(_, _)
buildContextFrom(res, k) ==
    IF k > Len(res) THEN <<>>
    ELSE IF ~IsString(res[k].Payload, "text") THEN buildContextFrom(res, k + 1)
    ELSE <<Section(k, res[k])>> \o buildContextFrom(res, k + 1)

buildContext(res) == buildContextFrom(res, 1)

\* The two messages of the prompt.
Messages(ctx, query) ==
    <<[Role |-> "system", Content |-> [context |-> <<>>, query |-> "SyntraFlow"]],
      [Role |-> "user", Content |-> [context |-> ctx, query |-> query]]>>

\* Query: the sources, one per result.
Sources(res) ==
    [k \in 1..Len(res) |->
        [ID |-> StringField(res[k].Payload, "id"),
         Module |-> StringField(res[k].Payload, "module"),
         Topic |-> StringField(res[k].Payload, "topic"),
         Score |-> res[k].Score]]

(* --------------------------- generation client ------------------------- *)
GenReply(net, status, json, choices, body, ending) ==
    [net |-> net, status |-> status, json |-> json, choices |-> choices,
     body |-> body, ending |-> ending]

\* The non-streaming responses of the generation endpoint.
ChatResponses ==
    {GenReply(FALSE, 0, FALSE, <<>>, <<>>, "eof"),
     GenReply(TRUE, StatusServerError, FALSE, <<>>, <<>>, "eof"),
     GenReply(TRUE, StatusOK, FALSE, <<>>, <<>>, "eof"),
     GenReply(TRUE, StatusOK, TRUE, <<>>, <<>>, "eof"),
     GenReply(TRUE, StatusOK, TRUE, <<"Hello">>, <<>>, "eof"),
     GenReply(TRUE, StatusOK, TRUE, <<"Hello", "Other">>, <<>>, "eof")}

CreateChatCompletion(resp) ==
    IF ~resp.net THEN Err("do request")
    ELSE IF resp.status # StatusOK THEN Err("groq error")
    ELSE IF ~resp.json THEN Err("decode response")
    ELSE NoErr

QueryReturnEmptyAnswer(resp, res) ==
    IF CreateChatCompletion(resp) # NoErr
    THEN [result |-> QNil, err |-> ErrAt("llm completion", 0, CreateChatCompletion(resp))]
    ELSE [result |-> [isNil |-> FALSE,
                      Answer |-> IF Len(resp.choices) = 0 THEN "" ELSE resp.choices[1],
                      Sources |-> Sources(res)],
          err |-> NoErr]

\* Query, from the completion's return to its own.
QueryReturn(resp, res) ==
    IF CreateChatCompletion(resp) # NoErr
    THEN [result |-> QNil, err |-> ErrAt("llm completion", 0, CreateChatCompletion(resp))]
    ELSE IF Len(resp.choices) = 0
    THEN [result |-> QNil, err |-> Err("no response from LLM")]
    ELSE [result |-> [isNil |-> FALSE, Answer |-> resp.choices[1],
                      Sources |-> Sources(res)],
          err |-> NoErr]

\* The lines of a streamed body.  A fragment is a sequence of characters.
Hel == <<"H", "e", "l">>
lo == <<"l", "o">>
Line(kind, contents) == [kind |-> kind, contents |-> contents]
Lines ==
    <<Line("other", <<>>),           \* a line without the "data: " prefix
      Line("malformed", <<Hel>>),    \* data that does not decode as a chunk:
                                     \* json.Unmarshal fails, having decoded this
      Line("done", <<>>),            \* data: [DONE]
      Line("chunk", <<Hel>>),        \* one choice
      Line("chunk", <<<<>>, lo>>)>>  \* two choices, the first with no content

Bodies ==
    {[k \in 1..n |-> Lines[f[k]]] :
        n \in 0..MaxLines, f \in [1..MaxLines -> 1..Len(Lines)]}

\* The streaming responses: the lines of the body, and how the connection
\* ends after them.
StreamResponses ==
    {GenReply(FALSE, 0, FALSE, <<>>, <<>>, "eof"),
     GenReply(TRUE, StatusServerError, FALSE, <<>>, <<>>, "eof")}
    \cup {GenReply(TRUE, StatusOK, TRUE, <<>>, b, e) :
            b \in Bodies, e \in {"eof", "readError"}}

\* The contents a chunk makes StreamChatCompletion write, in order.
NonEmpty(c) == Len(c) > 0
FragmentsFirstChoice(line) ==
    IF Len(line.contents) = 0 THEN <<>>
    ELSE SelectSeq(<<line.contents[1]>>, NonEmpty)
Fragments(line) == SelectSeq(line.contents, NonEmpty)

\* What the loop writes for a line: nothing unless it decoded.
LineFragmentsLenient(line) ==
    IF line.kind \in {"chunk", "malformed"} THEN Fragments(line) ELSE <<>>
LineFragments(line) == IF line.kind = "chunk" THEN Fragments(line) ELSE <<>>

\* scanner.Err() once Scan has returned false.
ScannerErrSilent(ending) == NoErr
ScannerErr(ending) == IF ending = "readError" THEN Err("read stream") ELSE NoErr

\* No request is being served.

ChatIdle ==
    /\ hpc = "idle"
    /\ req = NoRequest
    /\ queryEmbedding = <<>>
    /\ results = <<>>
    /\ messages = <<>>
    /\ genResp = NoResponse
    /\ rd = 0
    /\ pending = <<>>
    /\ queryResult = QNil
    /\ queryErr = Pending
    /\ httpStatus = 0
    /\ sink = <<>>
    /\ chatResponse = [kind |-> "none", text |-> "", answer |-> "", sources |-> <<>>]
    /\ qcalls = <<>>

(* -------------------------- initial states ----------------------------- *)
\* A point left in the collection by an earlier ingestion of another file.
StalePoints ==
    LET id == stringToNumericID("k1")
    IN  [n \in {id} |-> [vector |-> <<[m |-> 1, e |-> 0], [m |-> 1, e |-> 0]>>,
                         payload |-> [id |-> "k1", module |-> "Old", topic |-> "Old",
                                      roles |-> <<>>, query_variations |-> <<>>,
                                      answer |-> "old", text |-> "old"]]]

\* The collection as the create script makes it: a dimension of its own.
scriptReq == [createReq EXCEPT !.size = vectorSize + 1]

\* The store before the job runs: no collection, the collection as an
\* earlier run left it (empty or with a stale point), or the script's.
InitialStores ==
    {[collections |-> <<>>, points |-> <<>>],
     [collections |-> <<createReq>>, points |-> <<>>],
     [collections |-> <<createReq>>, points |-> StalePoints],
     [collections |-> <<scriptReq>>, points |-> <<>>]}

IngestInit ==
    /\ run = 0
    /\ \E st \in InitialStores :
        /\ collections = st.collections
        /\ points = st.points
        /\ points0 = points
    /\ file \in Files
    /\ pc = "start"
    /\ entries = <<>>
    /\ i = 0
    /\ texts = <<>>
    /\ embeddings = <<>>
    /\ calls = <<>>
    /\ ensureErr = Pending
    /\ ingestErr = Pending
    /\ prev = NoRun
    /\ jobCtx = Live

NextIngest ==
    \/ StartRun
    \/ EnsureCollection
    \/ createCollection
    \/ IngestJSONFile
    \/ BatchLoop
    \/ Embed
    \/ UpsertPoints

InitIngest == IngestInit /\ ChatIdle

SpecIngest == InitIngest /\ [][NextIngest]_vars


(* ------------------------ cmd/server: /chat ---------------------------- *)
Requests ==
    {[method |-> m, decodable |-> d, Query |-> q, Stream |-> st, flusher |-> fl] :
        m \in {"POST", "GET"}, d \in BOOLEAN, q \in {"", "how do I sign in"},
        st \in BOOLEAN, fl \in BOOLEAN}

\* Bodies of a non-streaming response.
NoBody == [kind |-> "none", text |-> "", answer |-> "", sources |-> <<>>]
Plain(text) == [kind |-> "text", text |-> text, answer |-> "", sources |-> <<>>]
Json(answer, sources) ==
    [kind |-> "json", text |-> "", answer |-> answer, sources |-> sources]

\* One external call of the query: which, and how it was answered.
Call(op, resp, n) ==
    [op |-> op, net |-> resp.net, status |-> resp.status, json |-> resp.json, n |-> n]

\* The handler after Query or StreamQuery has returned: the response.
HandlerReturns(result, err) ==
    /\ hpc' = "done"
    /\ queryResult' = result
    /\ queryErr' = err
    /\ IF req.Stream
       THEN /\ httpStatus' = IF httpStatus = 0 THEN StatusOK ELSE httpStatus
            /\ chatResponse' = chatResponse
       ELSE IF err # NoErr
       THEN /\ httpStatus' = StatusServerError
            /\ chatResponse' = Plain("Internal server error")
       ELSE /\ httpStatus' = StatusOK
            /\ chatResponse' = Json(result.Answer, result.Sources)

\* The handler up to the call of Query or StreamQuery.
HandleChat ==
    /\ hpc = "idle"
    /\ \E r \in Requests :
        /\ req' = r
        /\ IF r.method # "POST"
           THEN /\ httpStatus' = StatusMethodNotAllowed
                /\ chatResponse' = Plain("Method not allowed")
                /\ hpc' = "done"
           ELSE IF ~r.decodable
           THEN /\ httpStatus' = StatusBadRequest
                /\ chatResponse' = Plain("Invalid request body")
                /\ hpc' = "done"
           ELSE IF r.Query = ""
           THEN /\ httpStatus' = StatusBadRequest
                /\ chatResponse' = Plain("Query is required")
                /\ hpc' = "done"
           ELSE IF r.Stream /\ ~r.flusher
           THEN /\ httpStatus' = StatusServerError
                /\ chatResponse' = Plain("Streaming not supported")
                /\ hpc' = "done"
           ELSE /\ httpStatus' = 0
                /\ chatResponse' = NoBody
                /\ hpc' = "EmbedSingle"
    /\ UNCHANGED <<queryEmbedding, results, messages, genResp, rd, pending,
                   queryResult, queryErr, sink, qcalls>>
    /\ UNCHANGED ingestVars

\* Query / StreamQuery step 1: embed the query.
EmbedSingle ==
    /\ hpc = "EmbedSingle"
    /\ \E resp \in EngineResponses(Truncate(req.Query)) :
        LET r == embedSingle(req.Query, resp)
        IN  /\ qcalls' = Append(qcalls, Call("embed", resp, Len(resp.embedding)))
            /\ IF r.err # NoErr
               THEN /\ HandlerReturns(QNil, ErrAt("embed query", 0, r.err))
                    /\ queryEmbedding' = queryEmbedding
               ELSE /\ queryEmbedding' = r.vec
                    /\ hpc' = "Search"
                    /\ UNCHANGED <<queryResult, queryErr, httpStatus, chatResponse>>
    /\ UNCHANGED <<req, results, messages, genResp, rd, pending, sink>>
    /\ UNCHANGED ingestVars

\* Steps 2 to 4: search, build the context and the messages.
SearchAndPrompt ==
    /\ hpc = "Search"
    /\ \E resp \in SearchResponses(topK) :
        LET r == Search(resp)
        IN  /\ qcalls' = Append(qcalls, Call("search", resp, Len(resp.result)))
            /\ IF r.err # NoErr
               THEN /\ HandlerReturns(QNil, ErrAt("search", 0, r.err))
                    /\ UNCHANGED <<results, messages>>
               ELSE /\ results' = r.results
                    /\ messages' = Messages(buildContext(r.results), req.Query)
                    /\ hpc' = IF req.Stream THEN "StreamChatCompletion"
                              ELSE "CreateChatCompletion"
                    /\ UNCHANGED <<queryResult, queryErr, httpStatus, chatResponse>>
    /\ UNCHANGED <<req, queryEmbedding, genResp, rd, pending, sink>>
    /\ UNCHANGED ingestVars

\* Query steps 5 and 6: the completion, the result, the handler's response.
Complete ==
    /\ hpc = "CreateChatCompletion"
    /\ \E resp \in ChatResponses :
        /\ genResp' = resp
        /\ qcalls' = Append(qcalls, Call("generate", resp, Len(resp.choices)))
        /\ HandlerReturns(QueryReturn(resp, results).result, QueryReturn(resp, results).err)
    /\ UNCHANGED <<req, queryEmbedding, results, messages, rd, pending, sink>>
    /\ UNCHANGED ingestVars

\* StreamChatCompletion up to the scanner: the request and its status.
\* StreamQuery does not read results or messages again.
StreamRequest ==
    /\ hpc = "StreamChatCompletion"
    /\ \E resp \in StreamResponses :
        /\ genResp' = resp
        /\ qcalls' = Append(qcalls, Call("generate", resp, Len(resp.body)))
        /\ IF CreateChatCompletion(resp) # NoErr
           THEN /\ HandlerReturns(QNil, CreateChatCompletion(resp))
                /\ UNCHANGED <<results, messages>>
           ELSE /\ hpc' = "scan"
                /\ results' = <<>>
                /\ messages' = <<>>
                /\ UNCHANGED <<queryResult, queryErr, httpStatus, chatResponse>>
    /\ rd' = 0
    /\ UNCHANGED <<req, queryEmbedding, pending, sink>>
    /\ UNCHANGED ingestVars

\* One scanner.Scan() and what the loop does with the line before it writes.
\* At the sentinel the scanner may already have met the read error.
StreamScan ==
    /\ hpc = "scan"
    /\ IF rd = Len(genResp.body)
       THEN /\ HandlerReturns(QNil, ScannerErr(genResp.ending))
            /\ UNCHANGED <<rd, pending>>
       ELSE LET line == genResp.body[rd + 1]
            IN  /\ rd' = rd + 1
                /\ IF line.kind = "done"
                   THEN /\ \E e \in {NoErr, ScannerErr(genResp.ending)} :
                              HandlerReturns(QNil, e)
                        /\ pending' = pending
                   ELSE /\ pending' = LineFragments(line)
                        /\ hpc' = IF Len(LineFragments(line)) > 0 THEN "write" ELSE "scan"
                        /\ UNCHANGED <<queryResult, queryErr, httpStatus, chatResponse>>
    /\ UNCHANGED <<req, queryEmbedding, results, messages, genResp, sink, qcalls>>
    /\ UNCHANGED ingestVars

\* writer.Write of one fragment through the flushWriter: all of it, or an
\* error after n bytes.
StreamWrite ==
    /\ hpc = "write"
    /\ \E ok \in BOOLEAN, n \in 0..Len(Head(pending)) :
        /\ ok => n = Len(Head(pending))
        /\ sink' = sink \o SubSeq(Head(pending), 1, n)
        /\ httpStatus' = IF httpStatus = 0 THEN StatusOK ELSE httpStatus
        /\ IF ok
           THEN /\ pending' = Tail(pending)
                /\ hpc' = IF Len(pending) = 1 THEN "scan" ELSE "write"
                /\ queryErr' = queryErr
           ELSE /\ pending' = <<>>
                /\ hpc' = "done"
                /\ queryErr' = Err("write stream")
    /\ UNCHANGED <<req, queryEmbedding, results, messages, genResp, rd, queryResult,
                   chatResponse, qcalls>>
    /\ UNCHANGED ingestVars

\* The ingestion job is not running.
IngestIdle ==
    /\ run = 0
    /\ collections = <<createReq>>
    /\ points = <<>>
    /\ points0 = <<>>
    /\ file = [readable |-> FALSE, wellFormed |-> FALSE, entries |-> <<>>]
    /\ pc = "start"
    /\ entries = <<>>
    /\ i = 0
    /\ texts = <<>>
    /\ embeddings = <<>>
    /\ calls = <<>>
    /\ ensureErr = Pending
    /\ ingestErr = Pending
    /\ prev = NoRun
    /\ jobCtx = Live

NextChat ==
    \/ HandleChat
    \/ EmbedSingle
    \/ SearchAndPrompt
    \/ Complete
    \/ StreamRequest
    \/ StreamScan
    \/ StreamWrite

InitChat == IngestIdle /\ ChatIdle

SpecChat == InitChat /\ [][NextChat]_vars

(* ------------- a search over what the ingestion job stored ------------- *)
\* The value of a float whose value is an integer.
IntValue(x) == IF x.e >= 0 THEN x.m * Pow2(x.e) ELSE x.m \div Pow2(0 - x.e)

Dot(u, v) == IntValue(u[1]) * IntValue(v[1]) + IntValue(u[2]) * IntValue(v[2])
Cross(u, v) == Abs(IntValue(u[1]) * IntValue(v[2]) - IntValue(u[2]) * IntValue(v[1]))

\* Cosine distance: v is strictly more similar to q than w is.  For vectors
\* of the first quadrant the angle to q is smaller: tan = Cross / Dot.
Closer(q, v, w) == Cross(q, v) * Dot(q, w) < Cross(q, w) * Dot(q, v)

\* The largest r in a..b with r * r <= n.
RECURSIVE ISqrtIn(_, _, _)
ISqrtIn(n, a, b) ==
    IF a = b THEN a
    ELSE LET mid == (a + b + 1) \div 2
         IN  IF mid * mid <= n THEN ISqrtIn(n, mid, b) ELSE ISqrtIn(n, a, mid - 1)
ISqrt(n) == ISqrtIn(n, 0, 8192)

\* The score the store reports, in units of 1/1024 (1024 for q itself).
CosineScore(q, v) ==
    Min(ScoreUnit, (ScoreUnit * Dot(q, v)) \div ISqrt(Dot(q, q) * Dot(v, v)))

\* Numeric ids in increasing order: the most significant byte is the last.
IdLess(a, b) ==
    \E k \in 1..8 : a[k] < b[k] /\ \A j \in (k + 1)..8 : a[j] = b[j]

\* The stored point x is listed before y in the answer to the query q:
\* by similarity, equally similar points by id.
ListedBefore(q, x, y) ==
    \/ Closer(q, points[x].vector, points[y].vector)
    \/ /\ ~Closer(q, points[y].vector, points[x].vector)
       /\ IdLess(x, y)

RECURSIVE Ranked(_, _)
Ranked(q, S) ==
    IF S = {} THEN <<>>
    ELSE LET x == CHOOSE x \in S : \A y \in S \ {x} : ListedBefore(q, x, y)
         IN  <<x>> \o Ranked(q, S \ {x})

\* The sets of points the store may answer with: `limit` points (all, if
\* it holds fewer) none of which is less similar than a point left out.
\* Which of several equally similar points are left out is up to the store.
TopSets(q, limit) ==
    {S \in SUBSET DOMAIN points :
        /\ Cardinality(S) = Min(limit, Cardinality(DOMAIN points))
        /\ \A x \in S, y \in DOMAIN points \ S :
              ~Closer(q, points[y].vector, points[x].vector)}

\* json.Marshal of a payload, as json.Decode reads it back.
Arr(v) == [t |-> "array", v |-> [k \in 1..Len(v) |-> Str(v[k])]]
PayloadJSON(p) ==
    [id |-> Str(p.id), module |-> Str(p.module), topic |-> Str(p.topic),
     roles |-> Arr(p.roles), query_variations |-> Arr(p.query_variations),
     answer |-> Str(p.answer), text |-> Str(p.text)]

Hit(q, h) ==
    [id |-> Num(h), score |-> CosineScore(q, points[h].vector),
     payload |-> PayloadJSON(points[h].payload)]

\* POST /collections/<name>/points/search against the stored points.
StoredSearchResponses(q, limit) ==
    {SearchReply(FALSE, 0, FALSE, <<>>),
     SearchReply(TRUE, StatusServerError, FALSE, <<>>),
     SearchReply(TRUE, StatusOK, FALSE, <<>>)}
    \cup {SearchReply(TRUE, StatusOK, TRUE,
                      [k \in 1..Cardinality(S) |-> Hit(q, Ranked(q, S)[k])]) :
            S \in TopSets(q, limit)}

\* Client.Search with the vector of a stored point, once the job has exited.
SearchStored ==
    /\ pc = "exited"
    /\ hpc = "idle"
    /\ \E h \in DOMAIN points :
        LET q == points[h].vector
        IN  \E resp \in StoredSearchResponses(q, topK) :
              /\ queryEmbedding' = q
              /\ qcalls' = Append(qcalls, Call("search", resp, Len(resp.result)))
              /\ results' = Search(resp).results
              /\ queryErr' = Search(resp).err
              /\ hpc' = "searched"
    /\ UNCHANGED <<req, messages, genResp, rd, pending, queryResult, httpStatus,
                   sink, chatResponse>>
    /\ UNCHANGED ingestVars

\* The job has just been started, for the only time.
JobStarted ==
    /\ run = 1
    /\ \E st \in InitialStores :
        /\ collections = st.collections
        /\ points = st.points
        /\ points0 = points
    /\ file \in Files
    /\ pc = "EnsureCollection"
    /\ entries = <<>>
    /\ i = 0
    /\ texts = <<>>
    /\ embeddings = <<>>
    /\ calls = <<>>
    /\ ensureErr = Pending
    /\ ingestErr = Pending
    /\ prev = NoRun
    /\ jobCtx = Live

NextRoundTrip ==
    \/ EnsureCollection
    \/ createCollection
    \/ IngestJSONFile
    \/ BatchLoop
    \/ Embed
    \/ UpsertPoints
    \/ SearchStored

InitRoundTrip == JobStarted /\ ChatIdle

SpecRoundTrip == InitRoundTrip /\ [][NextRoundTrip]_vars

(* ----------------------- cancellation of the job ----------------------- *)
\* SIGINT or SIGTERM while the job runs: the signal goroutine calls cancel().
Cancel ==
    /\ pc \notin {"start", "exited"}
    /\ ~jobCtx.done
    /\ jobCtx' = Cancelled(pc, Len(calls))
    /\ UNCHANGED <<collections, points, points0, file, run, pc, entries, i, texts,
                   embeddings, calls, ensureErr, ingestErr, prev>>
    /\ UNCHANGED chatVars

NextCancel ==
    \/ EnsureCollection
    \/ createCollection
    \/ IngestJSONFile
    \/ BatchLoop
    \/ Embed
    \/ UpsertPoints
    \/ Cancel

InitCancel == JobStarted /\ ChatIdle

SpecCancel == InitCancel /\ [][NextCancel]_vars

(* ======================================================================= *)
(*                        properties of the ingestion job                  *)
(* ======================================================================= *)
CallsOf(op) == SelectSeq(calls, LAMBDA c : c.op = op)
Embeds == CallsOf("embed")
Upserts == CallsOf("upsert")
Acked(c) == c.net /\ c.status = StatusOK
CeilDiv(n, d) == IF n % d = 0 THEN n \div d ELSE (n \div d) + 1
IngestSucceeded == pc = "exited" /\ ingestErr = NoErr
BatchFailed == pc = "exited" /\ ingestErr.kind = "process batch"

\* The point p is the point of the entry e: its identifier and the entry's
\* structured fields.
PointIsEntry(p, e) ==
    /\ p.payload.id = e.ID
    /\ p.payload.module = e.Module
    /\ p.payload.topic = e.Topic
    /\ p.payload.roles = e.Roles
    /\ p.payload.query_variations = e.QueryVariations
    /\ p.payload.answer = e.Answer

\* The j-th upsert call (from 0) carries the entries 10j+1 .. of the file.
CarriesBatch(call, j, n) ==
    /\ Len(call.points) = Min(10, n - 10 * j)
    /\ \A k \in 1..Len(call.points) :
          PointIsEntry(call.points[k], file.entries[10 * j + k])

\* C1: a successful ingestion of N entries issues exactly ceil(N/10) upsert
\* calls; the j-th carries min(10, N - 10j) points, the entries 10j.. in
\* input order; no upsert call for N = 0.
C1_BatchArithmetic ==
    IngestSucceeded =>
        LET n == Len(file.entries)
        IN  /\ Len(Upserts) = CeilDiv(n, 10)
            /\ (n = 0 => Len(Upserts) = 0)
            /\ \A j \in 0..(Len(Upserts) - 1) : CarriesBatch(Upserts[j + 1], j, n)

C1_Witness ==
    /\ IngestSucceeded
    /\ Len(file.entries) > 10
    /\ Len(file.entries) % 10 # 0
    /\ Len(Upserts) = 2

Faults ==
    Cardinality({k \in 1..Len(calls) :
        /\ calls[k].op \in {"getCollection", "createCollection"}
        /\ (~calls[k].net \/ calls[k].status = StatusServerError)})

CollectionCount ==
    Cardinality({k \in 1..Len(collections) : collections[k].name = collectionName})

\* C2: EnsureCollection called twice in a row against a store that answers
\* (no transport failure, no server error) succeeds both times, leaves
\* exactly one collection of the name, and the second call sends no create
\* request.
C2_EnsureIdempotent ==
    (run >= 2 /\ ensureErr # Pending /\ prev.faults = 0 /\ Faults = 0) =>
        /\ prev.ensure = "nil"
        /\ ensureErr = NoErr
        /\ Count("createCollection") = 0
        /\ CollectionCount = 1

C2_Witness ==
    /\ run = 2
    /\ ensureErr = NoErr
    /\ prev.faults = 0
    /\ Faults = 0
    /\ prev.creates = 1
    /\ prev.ensure = "nil"

\* The writes to the numeric id n by acknowledged upsert calls, as
\* <<call, position>>, and the value the latest of them wrote.
AckedWrites(n) ==
    {w \in (1..Len(calls)) \X (1..batchSize) :
        /\ calls[w[1]].op = "upsert"
        /\ Acked(calls[w[1]])
        /\ w[2] <= Len(calls[w[1]].points)
        /\ calls[w[1]].points[w[2]].id = n}

Latest(S) ==
    CHOOSE w \in S : \A v \in S : v[1] < w[1] \/ (v[1] = w[1] /\ v[2] <= w[2])

Stored(p) == [vector |-> p.vector, payload |-> p.payload]

\* The values a failed upsert request carried for the numeric id n.
FailedWrites(n) ==
    {Stored(calls[w[1]].points[w[2]]) :
        w \in {v \in (1..Len(calls)) \X (1..batchSize) :
                /\ calls[v[1]].op = "upsert"
                /\ ~Acked(calls[v[1]])
                /\ v[2] <= Len(calls[v[1]].points)
                /\ calls[v[1]].points[v[2]].id = n}}

\* C5: when batch k fails in its embed or upsert step the error names k;
\* the calls made are those of batches 0..k only (the embed calls are the
\* texts of the entries in input order, at most up to the end of batch k;
\* the upserts are batches 0..k-1, acknowledged, and at most the failed one
\* of batch k); the failing call is the last one; every point written by an
\* acknowledged batch is still stored as last written, unless the failed
\* request itself carried the same numeric id.
C5_BatchFailureAborts ==
    BatchFailed =>
        LET k == ingestErr.index
            n == Len(file.entries)
            acked == Cardinality({j \in 1..Len(Upserts) : Acked(Upserts[j])})
        IN  /\ k = acked
            /\ k < CeilDiv(n, 10)
            /\ Len(Embeds) > 10 * k
            /\ Len(Embeds) <= Min(n, 10 * (k + 1))
            /\ \A e \in 1..Len(Embeds) :
                  Embeds[e].prompt = entryToText(file.entries[e])
            /\ Len(Upserts) \in {k, k + 1}
            /\ \A j \in 0..(Len(Upserts) - 1) :
                  /\ CarriesBatch(Upserts[j + 1], j, n)
                  /\ Acked(Upserts[j + 1]) <=> j < k
            /\ LET last == calls[Len(calls)]
               IN  \/ last.op = "upsert" /\ ~Acked(last)
                   \/ last.op = "embed" /\ embedSingle(last.prompt, last.reply).err # NoErr
            /\ \A id \in {calls[w[1]].points[w[2]].id :
                            w \in {v \in (1..Len(calls)) \X (1..batchSize) :
                                     /\ calls[v[1]].op = "upsert"
                                     /\ Acked(calls[v[1]])
                                     /\ v[2] <= Len(calls[v[1]].points)}} :
                  /\ id \in DOMAIN points
                  /\ LET w == Latest(AckedWrites(id))
                     IN  \/ points[id] = Stored(calls[w[1]].points[w[2]])
                         \/ points[id] \in FailedWrites(id)

C5_Witness ==
    /\ BatchFailed
    /\ ingestErr.index = 1
    /\ calls[Len(calls)].op = "upsert"
    /\ Len(Upserts) = 2

\* The collection after one complete ingestion of the file into the
\* collection as it was before the first run.
AllTexts == [k \in 1..Len(file.entries) |-> entryToText(file.entries[k])]
AllVectors ==
    [k \in 1..Len(file.entries) |->
        float64ToFloat32(EngineEmbedding(Truncate(AllTexts[k])))]
FullIngestion ==
    ApplyPoints(points0, qdrantPoints(BatchPoints(file.entries, AllTexts, AllVectors)),
                Len(file.entries))

\* C6: whenever a run completes successfully, after any number of failed
\* runs of the same file, the collection is what a single successful run
\* makes of the initial collection: the same numeric ids with the same
\* vectors and payloads, none duplicated.
C6_RerunIdempotent ==
    IngestSucceeded =>
        /\ points = FullIngestion
        /\ DOMAIN points =
             DOMAIN points0
             \cup {stringToNumericID(file.entries[k].ID) : k \in 1..Len(file.entries)}

C6_Witness ==
    /\ IngestSucceeded
    /\ run = 2
    /\ prev.ingest = "process batch"
    /\ prev.batch = 1
    /\ Len(file.entries) > 10

\* The embed calls of the Embed invocation under way (or just ended): the
\* calls after the last upsert.
RECURSIVE TrailingEmbeds(_)
TrailingEmbeds(n) ==
    IF n = 0 \/ calls[n].op # "embed" THEN <<>>
    ELSE Append(TrailingEmbeds(n - 1), calls[n])

EngineOK(reply) ==
    /\ reply.net
    /\ reply.read
    /\ reply.status = StatusOK
    /\ reply.json
    /\ Len(reply.embedding) > 0

\* C8: Embed on n texts returns n vectors, vector k made from the engine's
\* answer to text k, after exactly n calls in text order, each answered
\* with a non-empty vector; or it fails at the first text whose call fails,
\* returns no vector, and has called the engine for no later text.
C8_EmbedAllOrNothing ==
    /\ pc = "UpsertPoints" =>
          LET made == TrailingEmbeds(Len(calls))
          IN  /\ Len(embeddings) = Len(texts)
              /\ Len(made) = Len(texts)
              /\ \A k \in 1..Len(texts) :
                    /\ made[k].prompt = Truncate(texts[k])
                    /\ EngineOK(made[k].reply)
                    /\ embeddings[k] = float64ToFloat32(made[k].reply.embedding)
    /\ (BatchFailed /\ ingestErr.cause.kind = "embed texts") =>
          LET made == TrailingEmbeds(Len(calls))
              f == ingestErr.cause.index + 1
          IN  /\ embeddings = <<>>
              /\ Len(made) = f
              /\ f <= Len(texts)
              /\ \A k \in 1..f : made[k].prompt = Truncate(texts[k])
              /\ \A k \in 1..(f - 1) : EngineOK(made[k].reply)
              /\ ~EngineOK(made[f].reply)

C8_Witness ==
    /\ BatchFailed
    /\ ingestErr.cause.kind = "embed texts"
    /\ ingestErr.cause.index = 3
    /\ ingestErr.cause.cause.kind = "empty embedding returned"
    /\ Len(texts) = 10


(* ======================================================================= *)
(*                        properties of the query service                  *)
(* ======================================================================= *)
\* The query reached the pipeline (the request passed the handler's checks).
Accepted == Len(qcalls) > 0
HasPrompt == Len(messages) = 2
TextRanks(res) == {k \in 1..Len(res) : IsString(res[k].Payload, "text")}

\* C3: the context holds, in rank order, one labelled section for exactly
\* the results whose payload has a string "text"; the sources of the
\* QueryResult (and of the response) are one per result, in rank order,
\* whether or not the result is in the context.
C3_ContextAndSources ==
    /\ HasPrompt =>
          LET ctx == messages[2].Content.context
          IN  /\ Len(ctx) = Cardinality(TextRanks(results))
              /\ \A j \in 1..Len(ctx) :
                    /\ ctx[j].doc \in TextRanks(results)
                    /\ ctx[j].text = results[ctx[j].doc].Payload.text.v
                    /\ ctx[j].score = Format2f(results[ctx[j].doc].Score)
                    /\ j < Len(ctx) => ctx[j].doc < ctx[j + 1].doc
    /\ (hpc = "done" /\ Accepted /\ ~req.Stream /\ queryErr = NoErr) =>
          /\ Len(queryResult.Sources) = Len(results)
          /\ chatResponse.sources = queryResult.Sources
          /\ \A k \in 1..Len(results) :
                /\ queryResult.Sources[k].Score = results[k].Score
                /\ queryResult.Sources[k].Module = StringField(results[k].Payload, "module")
                /\ queryResult.Sources[k].Topic = StringField(results[k].Payload, "topic")

C3_Witness ==
    /\ hpc = "done"
    /\ ~req.Stream
    /\ queryErr = NoErr
    /\ Len(results) = 3
    /\ TextRanks(results) = {1, 3}
    /\ Len(messages[2].Content.context) = 2
    /\ messages[2].Content.context[2].doc = 3
    /\ Len(queryResult.Sources) = 3

\* The generation stream was opened: the request was answered with 200.
StreamStarted ==
    /\ req.Stream
    /\ hpc \in {"scan", "write", "done"}
    /\ genResp.net
    /\ genResp.status = StatusOK

RECURSIVE Concat(_)
Concat(frags) == IF Len(frags) = 0 THEN <<>> ELSE Head(frags) \o Concat(Tail(frags))

\* The text of the fragments of the first n lines of the body, in order.
RECURSIVE ReceivedText(_)
ReceivedText(n) ==
    IF n = 0 THEN <<>>
    ELSE ReceivedText(n - 1)
         \o (IF genResp.body[n].kind = "chunk" THEN Concat(genResp.body[n].contents)
             ELSE <<>>)

IsPrefix(a, b) == Len(a) <= Len(b) /\ a = SubSeq(b, 1, Len(a))

SentinelRead == rd > 0 /\ genResp.body[rd].kind = "done"

\* C4: the sink is always a prefix of the fragments received so far, in
\* arrival order; the scanner reads the next line only when all of them are
\* written; no line after the sentinel is read; and when the stream ends
\* with no error (sentinel or end of connection) the sink is exactly the
\* fragments that arrived before the sentinel.
C4_StreamingFidelity ==
    StreamStarted =>
        /\ IsPrefix(sink, ReceivedText(rd))
        /\ hpc = "scan" => sink = ReceivedText(rd)
        /\ \A k \in 1..(rd - 1) : genResp.body[k].kind # "done"
        /\ (hpc = "done" /\ queryErr = NoErr) =>
              /\ sink = ReceivedText(rd)
              /\ SentinelRead \/ rd = Len(genResp.body)

C4_Witness ==
    /\ StreamStarted
    /\ hpc = "done"
    /\ queryErr = NoErr
    /\ SentinelRead
    /\ rd < Len(genResp.body)
    /\ genResp.body[Len(genResp.body)].kind = "chunk"
    /\ sink = Hel

ReplyOK(c) == c.net /\ c.status = StatusOK /\ c.json /\ (c.op = "embed" => c.n > 0)
StepFailed == \E k \in 1..Len(qcalls) : ~ReplyOK(qcalls[k])
ZeroChoices ==
    /\ Len(qcalls) = 3
    /\ ReplyOK(qcalls[3])
    /\ qcalls[3].n = 0

\* C7: Query returns a result and no error, or an error and a nil result;
\* an error exactly when the embed, search or generation step failed or
\* the completion has no choice; otherwise the answer is the content of
\* the first choice.
C7_QueryAllOrNothing ==
    (hpc = "done" /\ Accepted /\ ~req.Stream) =>
        /\ queryErr # Pending
        /\ queryResult.isNil <=> queryErr # NoErr
        /\ (StepFailed \/ ZeroChoices) => (queryResult = QNil /\ queryErr # NoErr)
        /\ ~(StepFailed \/ ZeroChoices) =>
              /\ queryErr = NoErr
              /\ Len(qcalls) = 3
              /\ queryResult.Answer = genResp.choices[1]
              /\ chatResponse.answer = genResp.choices[1]

C7_Witness ==
    /\ hpc = "done"
    /\ ~req.Stream
    /\ ZeroChoices
    /\ queryResult = QNil
    /\ queryErr = Err("no response from LLM")

GenerateCalled == Len(qcalls) = 3
RequestFailed == ~genResp.net \/ genResp.status # StatusOK
\* The connection failed while the scanner was reading, before a sentinel.
ReadFailed ==
    /\ StreamStarted
    /\ hpc = "done"
    /\ queryErr.kind # "write stream"
    /\ genResp.ending = "readError"
    /\ rd = Len(genResp.body)
    /\ ~SentinelRead
\* The connection ended, with no failure, before a sentinel.
EndedWithoutSentinel ==
    /\ StreamStarted
    /\ hpc = "done"
    /\ queryErr.kind # "write stream"
    /\ genResp.ending = "eof"
    /\ rd = Len(genResp.body)
    /\ ~SentinelRead

\* The read failure came after fragments had been received and written.
MidStreamFailure ==
    /\ ReadFailed
    /\ \E k \in 1..rd : genResp.body[k].kind = "chunk"
    /\ Len(sink) > 0

\* C9 as stated: a failure before any chunk is an error, a read failure once
\* the stream has begun returns the outcome of a completed answer (nil).
C9_AsStated ==
    (hpc = "done" /\ req.Stream /\ GenerateCalled) =>
        /\ RequestFailed => queryErr # NoErr
        /\ MidStreamFailure => queryErr = NoErr

\* C9, amended: a request that fails before the stream opens is an error and
\* nothing is written; a read failure of the open stream is returned as an
\* error too, the fragments written so far staying in the sink; an end of
\* the connection without sentinel returns nil, as a completed answer does.
C9_StreamFailures ==
    (hpc = "done" /\ req.Stream /\ GenerateCalled) =>
        /\ RequestFailed => (queryErr # NoErr /\ sink = <<>>)
        /\ ReadFailed => (queryErr = Err("read stream") /\ sink = ReceivedText(rd))
        /\ EndedWithoutSentinel => queryErr = NoErr
        /\ (StreamStarted /\ SentinelRead /\ genResp.ending = "eof") => queryErr = NoErr

C9_Witness ==
    /\ MidStreamFailure
    /\ rd >= 1
    /\ sink = Hel
    /\ queryErr = Err("read stream")

\* C10: a query accepted by /chat that fails at a pipeline step is answered
\* with a non-success response, in both modes.
C10_FailureIndicated ==
    (hpc = "done" /\ Accepted /\ queryErr # NoErr) => httpStatus # StatusOK

(* ======================================================================= *)
(*                     properties of the stored round trip                 *)
(* ======================================================================= *)
Searched == hpc = "searched" /\ queryErr = NoErr

\* The payload processBatch builds for the entry e.
EntryPayload(e) ==
    [id |-> e.ID, module |-> e.Module, topic |-> e.Topic, roles |-> e.Roles,
     query_variations |-> e.QueryVariations, answer |-> e.Answer,
     text |-> entryToText(e)]

\* The k-th result is a stored point, under its string id, with the payload
\* that was upserted for it (or that it held before the job ran).
ResultRoundTrips(k) ==
    LET s == results[k].ID
        h == stringToNumericID(s)
    IN  /\ h \in DOMAIN points
        /\ points[h].payload.id = s
        /\ results[k].Payload = PayloadJSON(points[h].payload)
        /\ \/ h \in DOMAIN points0 /\ points[h] = points0[h]
           \/ \E n \in 1..Len(file.entries) :
                /\ file.entries[n].ID = s
                /\ points[h].payload = EntryPayload(file.entries[n])

ResultIds == {stringToNumericID(results[k].ID) : k \in 1..Len(results)}

\* The stored points that are as similar to the query as a point can be,
\* the point whose vector is the query among them.
OwnLike == {h \in DOMAIN points : Cross(queryEmbedding, points[h].vector) = 0}

\* C11 as stated: every result carries the string id and the payload that
\* were upserted, and every point whose own vector is the query is among
\* the top-K results.
C11_AsStated ==
    Searched =>
        /\ \A k \in 1..Len(results) : ResultRoundTrips(k)
        /\ \A h \in DOMAIN points :
              points[h].vector = queryEmbedding => h \in ResultIds

\* C11: every result of a search over the ingested points carries the
\* string id of the entry and the payload that was upserted for it; the
\* results are topK points (all, if fewer are stored), and a search with a
\* point's own vector returns that point unless more than topK stored
\* points are equally similar to it, in which case all results are such
\* points.
C11_RoundTrip ==
    Searched =>
        /\ \A k \in 1..Len(results) : ResultRoundTrips(k)
        /\ Len(results) = Min(topK, Cardinality(DOMAIN points))
        /\ Cardinality(ResultIds) = Len(results)
        /\ IF Cardinality(OwnLike) <= topK
           THEN OwnLike \subseteq ResultIds
           ELSE ResultIds \subseteq OwnLike

C11_Witness ==
    /\ Searched
    /\ ingestErr = NoErr
    /\ Cardinality(OwnLike) > topK
    /\ Len(results) = topK
    /\ \E k \in 1..Len(results) : results[k].ID = "k6"
    /\ stringToNumericID("k1") \notin ResultIds

(* ======================================================================= *)
(*                 further properties of the ingestion job                 *)
(* ======================================================================= *)
\* The points sent by the upsert calls of this run, as <<call, position>>.
SentPoints ==
    {w \in (1..Len(calls)) \X (1..batchSize) :
        /\ calls[w[1]].op = "upsert"
        /\ w[2] <= Len(calls[w[1]].points)}

SentPoint(w) == calls[w[1]].points[w[2]]

\* C12: the numeric id sent for a string id is the same in every upsert
\* call: two points of this run with the same string id carry the same
\* numeric id, wherever they stand in their requests, and a point stored by
\* an earlier call or an earlier run under that string id is stored under
\* the same numeric id.
C12_MappingIsPure ==
    /\ \A v, w \in SentPoints :
          SentPoint(v).payload.id = SentPoint(w).payload.id
              => SentPoint(v).id = SentPoint(w).id
    /\ \A w \in SentPoints : \A h \in DOMAIN points :
          points[h].payload.id = SentPoint(w).payload.id => h = SentPoint(w).id

C12_Witness ==
    /\ run = 2
    /\ prev.ingest = "nil"
    /\ \E v, w \in SentPoints :
          /\ v[1] < w[1]
          /\ SentPoint(v).payload.id = "k1"
          /\ SentPoint(w).payload.id = "k1"
          /\ v[2] # w[2]
          /\ SentPoint(v).id = SentPoint(w).id
          /\ SentPoint(v).id \in DOMAIN points0

\* The k-th point of the j-th upsert call and the embed call it stems from.
UpsertVector(j, k) == Upserts[j].points[k].vector
EmbedOf(j, k) == Embeds[batchSize * (j - 1) + k]

WrongDimension(call) ==
    \E k \in 1..Len(call.points) : Len(call.points[k].vector) # CollectionSize

\* C13: every vector is sent as the embedder returned it, in its own
\* length; an upsert the store answers with a non-success status (or that
\* fails in transport) is the last call of the run, which ends with the
\* batch's error; a request with a vector of the wrong length is never
\* acknowledged, stores nothing, and its run does not succeed.
C13_DimensionMismatchSurfaces ==
    /\ \A j \in 1..Len(Upserts) : \A k \in 1..Len(Upserts[j].points) :
          /\ UpsertVector(j, k) = float64ToFloat32(EmbedOf(j, k).reply.embedding)
          /\ Len(UpsertVector(j, k)) = Len(EmbedOf(j, k).reply.embedding)
    /\ \A c \in 1..Len(calls) :
          (calls[c].op = "upsert" /\ ~Acked(calls[c])) =>
              /\ c = Len(calls)
              /\ pc = "exited"
              /\ ingestErr.kind = "process batch"
              /\ ingestErr.cause.kind = "upsert points"
              /\ ingestErr.cause.cause # NoErr
    /\ \A j \in 1..Len(Upserts) :
          WrongDimension(Upserts[j]) =>
              /\ ~Acked(Upserts[j])
              /\ ~IngestSucceeded
              /\ \A k \in 1..Len(Upserts[j].points) :
                    Upserts[j].points[k].id \in DOMAIN points =>
                        points[Upserts[j].points[k].id].vector
                            # Upserts[j].points[k].vector

C13_Witness ==
    /\ pc = "exited"
    /\ Len(Upserts) = 1
    /\ WrongDimension(Upserts[1])
    /\ Upserts[1].status = StatusBadRequest
    /\ Len(Upserts[1].points) = batchSize
    /\ Len(file.entries) > batchSize
    /\ ingestErr.kind = "process batch"
    /\ Len(Embeds) = batchSize

\* EnsureCollection has returned; its metadata read and its create requests.
EnsureReturned == run >= 1 /\ ensureErr # Pending
MetadataRead == CallsOf("getCollection")[1]
Creates == CallsOf("createCollection")
CreateTolerated(c) == c.net /\ (c.status = StatusOK \/ c.status = StatusConflict)

\* C14 as stated: 'exists' means no create request and success; every
\* other outcome of the metadata read means exactly one create request, and
\* success exactly when the create succeeds or conflicts.
C14_AsStated ==
    EnsureReturned =>
        /\ Len(CallsOf("getCollection")) = 1
        /\ IF Acked(MetadataRead)
           THEN Len(Creates) = 0 /\ ensureErr = NoErr
           ELSE /\ Len(Creates) = 1
                /\ ensureErr = NoErr <=> CreateTolerated(Creates[1])

\* C14: 'exists' (200) means no create request and success; a metadata
\* read that fails in transport is returned as an error with no create
\* request; every other answer (404 or any other status) means exactly one
\* create request, right after the read, and EnsureCollection then succeeds
\* exactly when the create answers 200 or 409.
C14_DecisionTable ==
    EnsureReturned =>
        /\ Len(CallsOf("getCollection")) = 1
        /\ calls[1] = MetadataRead
        /\ IF ~MetadataRead.net
           THEN Len(Creates) = 0 /\ ensureErr = Err("check collection")
           ELSE IF MetadataRead.status = StatusOK
           THEN Len(Creates) = 0 /\ ensureErr = NoErr
           ELSE /\ Len(Creates) = 1
                /\ calls[2] = Creates[1]
                /\ ensureErr = NoErr <=> CreateTolerated(Creates[1])
                /\ ensureErr # NoErr => Len(calls) = 2 /\ pc = "exited"

C14_Witness ==
    /\ EnsureReturned
    /\ MetadataRead.net
    /\ MetadataRead.status = StatusServerError
    /\ Len(Creates) = 1
    /\ Creates[1].status = StatusConflict
    /\ ensureErr = NoErr

(* ======================================================================= *)
(*                 further properties of the query service                 *)
(* ======================================================================= *)
Chain == <<"embed", "search", "generate">>

\* C15: the external calls of a query are a prefix of embed, search,
\* generate, each at most once; a call follows only a call that succeeded;
\* a failed call is the last call and the query has returned with an
\* error; a streaming query writes nothing before its generate call, so
\* nothing when embed or search fails.
C15_SequentialChain ==
    /\ Len(qcalls) <= Len(Chain)
    /\ \A k \in 1..Len(qcalls) :
          /\ qcalls[k].op = Chain[k]
          /\ k > 1 => ReplyOK(qcalls[k - 1])
          /\ (~ReplyOK(qcalls[k]) /\ k < Len(Chain)) =>
                /\ k = Len(qcalls)
                /\ hpc = "done"
                /\ queryErr \notin {NoErr, Pending}
    /\ Len(qcalls) < Len(Chain) => sink = <<>>
    /\ (hpc = "done" /\ Accepted /\ Len(qcalls) < Len(Chain)) =>
          ~ReplyOK(qcalls[Len(qcalls)])

C15_Witness ==
    /\ hpc = "done"
    /\ req.Stream
    /\ Len(qcalls) = 2
    /\ ReplyOK(qcalls[1])
    /\ ~ReplyOK(qcalls[2])
    /\ sink = <<>>
    /\ queryErr.kind = "search"

Malformed(k) == genResp.body[k].kind = "malformed"

\* C16: a chunk that does not decode is skipped: nothing is written for it
\* (the sink holds the fragments of the chunks before it), the scanner goes
\* on to the next line, and the call returns an error only for how the
\* connection ends or for a failed write; with a clean end the sink holds
\* the fragments of all well-formed chunks before and after it, in order.
C16_MalformedSkipped ==
    StreamStarted =>
        /\ (rd > 0 /\ Malformed(rd)) =>
              /\ hpc \in {"scan", "done"}
              /\ pending = <<>>
              /\ sink = ReceivedText(rd - 1)
              /\ hpc = "scan" => queryErr = Pending
              /\ hpc = "done" =>
                    /\ rd = Len(genResp.body)
                    /\ queryErr = ScannerErr(genResp.ending)
        /\ (hpc = "done" /\ \E k \in 1..rd : Malformed(k)) =>
              /\ queryErr.kind \in {"nil", "write stream", "read stream"}
              /\ queryErr.kind # "write stream" => sink = ReceivedText(rd)
              /\ queryErr.kind = "read stream" => genResp.ending = "readError"

C16_Witness ==
    /\ StreamStarted
    /\ hpc = "done"
    /\ queryErr = NoErr
    /\ rd = 3
    /\ genResp.body[1].kind = "chunk"
    /\ Malformed(2)
    /\ genResp.body[3].kind = "chunk"
    /\ sink = Hel \o lo

(* ======================================================================= *)
(*                      properties of the cancelled job                    *)
(* ======================================================================= *)
\* The places of the job where an external call is made.
CallSites == {"EnsureCollection", "createCollection", "Embed", "UpsertPoints"}

JobFailed ==
    /\ pc = "exited"
    /\ ensureErr \notin {NoErr, Pending} \/ ingestErr \notin {NoErr, Pending}

\* C17 as stated, for the calls of the ingestion job (existence check,
\* create, embedding, upsert): once the context is cancelled, at most the
\* call that was in flight is still logged, and it is not answered: it
\* aborts with an error; no further external request is issued; and the
\* job ends with that error.
C17_AsStated ==
    jobCtx.done =>
        /\ Len(calls) <= jobCtx.calls + 1
        /\ Len(calls) = jobCtx.calls + 1 =>
              LET last == calls[Len(calls)]
              IN  IF last.op = "embed" THEN ~last.reply.net ELSE ~last.net
        /\ (jobCtx.at \in CallSites /\ pc # jobCtx.at) => JobFailed

(* ======================================================================= *)
(*                    properties of the reported identifiers               *)
(* ======================================================================= *)
\* C18 as stated: the identifier of a search result is the payload's string
\* id when there is one and otherwise the raw id, which is not empty; and
\* the source at rank k of a query result carries the identifier of the
\* search result at rank k.
C18_AsStated ==
    /\ \A k \in 1..Len(results) :
          IF IsString(results[k].Payload, "id")
          THEN results[k].ID = results[k].Payload.id.v
          ELSE results[k].ID # ""
    /\ (hpc = "done" /\ Accepted /\ ~req.Stream /\ queryErr = NoErr) =>
          /\ Len(queryResult.Sources) = Len(results)
          /\ \A k \in 1..Len(results) : queryResult.Sources[k].ID = results[k].ID

(* ======================================================================= *)
(*                    the order of the calls of the job                    *)
(* ======================================================================= *)
\* The embed and upsert calls among the first p calls of the run.
EmbedsBefore(p) == {c \in 1..(p - 1) : calls[c].op = "embed"}
UpsertsBefore(p) == {c \in 1..(p - 1) : calls[c].op = "upsert"}

\* C19: the e-th embed call is the text of the e-th entry and is made when
\* exactly the batches before its own have been upserted, each
\* acknowledged; the u-th upsert call is made when exactly the texts of
\* the batches up to its own have been embedded, each with success; so the
\* calls of a batch never interleave with those of another batch.
C19_BatchesInOrder ==
    \A p \in 1..Len(calls) :
        LET e == Cardinality(EmbedsBefore(p))
            u == Cardinality(UpsertsBefore(p))
            n == Len(file.entries)
        IN  /\ calls[p].op = "embed" =>
                /\ e < n
                /\ calls[p].prompt = entryToText(file.entries[e + 1])
                /\ u = e \div batchSize
                /\ \A c \in UpsertsBefore(p) : Acked(calls[c])
                /\ \A c \in EmbedsBefore(p) :
                      embedSingle(calls[c].prompt, calls[c].reply).err = NoErr
            /\ calls[p].op = "upsert" =>
                /\ e = Min(batchSize * (u + 1), n)
                /\ calls[p - 1].op = "embed"
                /\ Len(calls[p].points) = e - batchSize * u
                /\ \A c \in UpsertsBefore(p) : Acked(calls[c])
                /\ \A c \in EmbedsBefore(p) :
                      embedSingle(calls[c].prompt, calls[c].reply).err = NoErr

C19_Witness ==
    /\ pc = "Embed"
    /\ Len(Upserts) = 1
    /\ Acked(Upserts[1])
    /\ Len(Embeds) = batchSize + 1
    /\ calls[Len(calls)].op = "embed"
    /\ calls[Len(calls) - 1].op = "upsert"

====
